---- MODULE Spec2Model ----
(***************************************************************************)
(* django-smart-models, package smartmodels: the soft-delete / ownership   *)
(* pipeline (SmartModel, SmartQuerySet, SmartManager, the pre_save         *)
(* handler), the viewset and admin mixins that drive it, the object        *)
(* permissions and the resource-namespace relation.                        *)
(*                                                                         *)
(* The database is a table of rows keyed by pk; a Python object holding a  *)
(* copy of a row (or a not yet saved instance) is an in-memory instance    *)
(* kept in a handle.  Model.save() writes every field of the in-memory     *)
(* instance (UPDATE, or INSERT when no row has its pk).  The columns       *)
(* created_at / updated_at are not modelled: no operation reads them.      *)
(***************************************************************************)
EXTENDS Integers, Sequences, FiniteSets, TLC

\* ------------------------------------------------------------ bounds
MaxPk == 1
MaxRows == 2

\* ------------------------------------------------------------ universe
None == "None"
SENTINEL_UID == "sentinel"
AnonymousUser == "anonymous"
InactiveUid == "dave"
RequestUsers == {"alice", "bob"}
AllUsers == RequestUsers \cup {SENTINEL_UID}
UserOrNone == RequestUsers \cup {None}
Handles == {"h1"}
NoInstance == [kind |-> "nothing"]

is_staff(u) == u = "bob"
is_authenticated(u) == u # AnonymousUser
is_anonymous(u) == u = AnonymousUser

VARIABLES
  settings,   \* DEFAULT_REQUIRED, HIDE_DELETED, HIDE_SERVICE_OWNERS, SERVICE_UIDS
  users,      \* usernames of the rows of the user table
  rows,       \* pk -> row of the SmartModel table
  nextPk,     \* next auto-increment primary key
  inst,       \* handle -> in-memory instance
  nsRows,     \* names of the rows of the Namespace table
  through,    \* the resource-namespace relation, pairs <<pk, namespace>>
  raised,     \* the AssertionError the last operation ended with, or None
  events      \* the post_delete signals and the save()s of the last operation, in order

\* The serializer layer (drf/serializers) keeps its own state: the validators
\* each field of a nested serializer class is declared with, the class-level
\* Meta.extra_kwargs of those classes, the input a parent serializer was
\* bound to, the nested serializers last built from it, and the outcome of
\* the last serializer call.
VARIABLES declared, extra_kwargs, initial_data, nested, out

smartvars == <<settings, users, rows, nextPk, inst, nsRows, through, raised, events>>

serializervars == <<declared, extra_kwargs, initial_data, nested, out>>

vars == <<settings, users, rows, nextPk, inst, nsRows, through, raised, events,
          declared, extra_kwargs, initial_data, nested, out>>

\* ------------------------------------------------------------ serializer universe
\* longest validator list a field of a nested serializer is declared with
MaxValidators == 2

\* classes of validators a serializer field can carry
ValidatorKinds ==
  {"UniqueValidator", "UniqueTogetherValidator", "MaxLengthValidator", "RegexValidator"}

ValidatorLists == UNION {[1..n -> ValidatorKinds] : n \in 0..MaxValidators}

\* drf/serializers/mixins.py: the validator classes disabled on nested serializers
BLACKLISTED_VALIDATORS == <<"UniqueValidator", "UniqueTogetherValidator">>

\* isinstance(v, d) over the validator classes above (none subclasses another)
isinstance(v, d) == v = d

\* drf/serializers/smart.py: the serializer classes nested in a parent serializer
NestedClasses == {"OwnerSerializer", "NamespaceSerializer"}

\* the fields of a nested serializer class (Meta.fields = '__all__'), two of them
InnerFields == {"username", "email"}

\* the validators the second field is declared with
EmailValidators == <<"RegexValidator", "UniqueValidator", "MaxLengthValidator">>

\* the state of the serializer layer before any serializer call: no
\* 'validators' option in any Meta.extra_kwargs, no input bound, no call made
NoExtraKwargs == [c \in NestedClasses |-> [f \in {} |-> [validators |-> <<>>]]]

EmptyData == [top |-> {}, nested |-> [n \in {} |-> {}]]

NoNested == [n \in {} |-> [cls |-> "", child |-> "", ref |-> "", data |-> EmptyData]]

NoCall == [call |-> "none"]

SerializersIdle ==
  /\ declared = [c \in NestedClasses |-> [f \in InnerFields |-> EmailValidators]]
  /\ extra_kwargs = NoExtraKwargs
  /\ initial_data = EmptyData
  /\ nested = NoNested
  /\ out = NoCall

get_setting(name) == settings[name]

\* ------------------------------------------------------------ helpers.py
ActionCREATE == "create"
ActionUPDATE == "update"
ActionDELETE == "delete"

\* mutant: an update also hands the object over to the user who updates it
_make_smart_fields_UpdateOwner(action, owner) ==
  IF action = ActionCREATE
  THEN [f \in {"owner", "created_by", "updated_by"} |-> owner]
  ELSE IF action = ActionUPDATE
  THEN [f \in {"owner", "updated_by"} |-> owner]
  ELSE IF action = ActionDELETE
  THEN [f \in {"deleted_by"} |-> owner]
  ELSE [f \in {} |-> owner]

_make_smart_fields(action, owner) ==
  IF action = ActionCREATE
  THEN [f \in {"owner", "created_by", "updated_by"} |-> owner]
  ELSE IF action = ActionUPDATE
  THEN [f \in {"updated_by"} |-> owner]
  ELSE IF action = ActionDELETE
  THEN [f \in {"deleted_by"} |-> owner]
  ELSE [f \in {} |-> owner]

_set_smart_fields(obj, action, user) ==
  LET fields == _make_smart_fields(action, user)
  IN  [f \in DOMAIN obj |-> IF f \in DOMAIN fields THEN fields[f] ELSE obj[f]]

_are_services(instance, uids) ==
  IF instance.kind = "user" THEN instance.uid \in uids ELSE FALSE

is_sentinel(instance) == _are_services(instance, {get_setting("SENTINEL_UID")})

is_service(instance) == _are_services(instance, get_setting("SERVICE_UIDS"))

is_superuser(instance) ==
  IF instance.kind = "user" THEN instance.is_superuser ELSE FALSE

\* ------------------------------------------------------------ models
BlankInstance ==
  [kind |-> "resource", uid |-> None, is_superuser |-> FALSE, pk |-> 0,
   owner |-> None, created_by |-> None, updated_by |-> None,
   deleted_by |-> None, deleted_at |-> None]

RowOf(i) ==
  [owner |-> i.owner, created_by |-> i.created_by, updated_by |-> i.updated_by,
   deleted_by |-> i.deleted_by, deleted_at |-> i.deleted_at]

InstanceOf(pk) ==
  [kind |-> "resource", uid |-> None, is_superuser |-> FALSE, pk |-> pk,
   owner |-> rows[pk].owner, created_by |-> rows[pk].created_by,
   updated_by |-> rows[pk].updated_by, deleted_by |-> rows[pk].deleted_by,
   deleted_at |-> rows[pk].deleted_at]

Put(f, k, v) == [x \in DOMAIN f \cup {k} |-> IF x = k THEN v ELSE f[x]]

\* models/utils.py: get_or_create of the sentinel user
UsersWithSentinel == users \cup {get_setting("SENTINEL_UID")}

get_sentinel_user == get_setting("SENTINEL_UID")

\* models/managers.py
UserIsActive(u) == u # InactiveUid

\* mutant: active() without the test on owner__is_active
active_AnyOwnerActive(pks) ==
  LET shown1 == {pk \in pks : ~(rows[pk].owner = get_setting("SENTINEL_UID"))}
      shown2 == IF get_setting("HIDE_DELETED")
                THEN {pk \in shown1 : rows[pk].deleted_at = None}
                ELSE shown1
      shown3 == IF get_setting("HIDE_SERVICE_OWNERS")
                THEN {pk \in shown2 : ~(rows[pk].owner \in get_setting("SERVICE_UIDS")
                                        \/ rows[pk].deleted_at # None)}
                ELSE shown2
  IN  shown3

active(pks) ==
  LET shown1 == {pk \in pks : ~(rows[pk].owner = get_setting("SENTINEL_UID")
                                \/ (rows[pk].owner # None /\ ~UserIsActive(rows[pk].owner)))}
      shown2 == IF get_setting("HIDE_DELETED")
                THEN {pk \in shown1 : rows[pk].deleted_at = None}
                ELSE shown1
      shown3 == IF get_setting("HIDE_SERVICE_OWNERS")
                THEN {pk \in shown2 : ~(rows[pk].owner \in get_setting("SERVICE_UIDS")
                                        \/ rows[pk].deleted_at # None)}
                ELSE shown2
  IN  shown3

\* SmartModel._objects = models.Manager()
UnfilteredObjects == DOMAIN rows

\* SmartModel.objects = SmartManager()
Objects == active(DOMAIN rows)

\* the assertion messages, by what they say is missing
MissingOwner == "missing owner"
MissingCreatedOrUpdatedBy == "missing created_by or updated_by"
MissingUpdatedOrDeletedBy == "missing updated_by or deleted_by"
MissingDeletedBy == "instance missing deleted_by"
ManagerMissingDeletedBy == "manager method delete() missing deleted_by"

\* mutant: the handler asks a new instance for its owner only
prepare_smart_fields_OwnerOnly(instance) ==
  LET excluded == is_sentinel(instance) \/ is_superuser(instance) \/ is_service(instance)
  IN  IF get_setting("DEFAULT_REQUIRED") /\ ~excluded
      THEN IF instance.owner = None THEN MissingOwner
           ELSE IF instance.pk = 0
           THEN None
           ELSE IF instance.updated_by # None \/ instance.deleted_by # None
                THEN None ELSE MissingUpdatedOrDeletedBy
      ELSE None

\* models/smart.py: the pre_save handler; None when no assertion fails, else the
\* message of the AssertionError
prepare_smart_fields(instance) ==
  LET excluded == is_sentinel(instance) \/ is_superuser(instance) \/ is_service(instance)
  IN  IF get_setting("DEFAULT_REQUIRED") /\ ~excluded
      THEN IF instance.owner = None THEN MissingOwner
           ELSE IF instance.pk = 0
           THEN IF instance.created_by # None /\ instance.updated_by # None
                THEN None ELSE MissingCreatedOrUpdatedBy
           ELSE IF instance.updated_by # None \/ instance.deleted_by # None
                THEN None ELSE MissingUpdatedOrDeletedBy
      ELSE None

SaveEvent(pk) == [type |-> "save", pk |-> pk, by |-> None]
\* mutant: post_delete is sent without deleted_by
PostDeleteEvent_Anonymous(i) == [type |-> "post_delete", pk |-> i.pk, by |-> None]

PostDeleteEvent(i) == [type |-> "post_delete", pk |-> i.pk, by |-> i.deleted_by]

\* Model.save() of instance i: the pk it is written under
SavePk(i) == IF i.pk = 0 THEN nextPk ELSE i.pk

\* Model.save() of instance i: pre_save, then UPDATE, or INSERT when no row has
\* its pk.  pre holds the events the operation has sent before it saves, usrs
\* the user table as the operation has left it so far.
SaveWrite(i, pre, usrs) ==
  IF prepare_smart_fields(i) # None
  THEN /\ raised' = prepare_smart_fields(i)
       /\ events' = pre
       /\ users' = usrs
       /\ UNCHANGED <<rows, nextPk>>
  ELSE IF i.kind = "user"
  THEN /\ users' = usrs \cup {i.uid}
       /\ raised' = None
       /\ events' = Append(pre, SaveEvent(i.pk))
       /\ UNCHANGED <<rows, nextPk>>
  ELSE /\ i.pk = 0 => nextPk <= MaxPk
       /\ rows' = Put(rows, SavePk(i), RowOf(i))
       /\ nextPk' = IF i.pk = 0 THEN nextPk + 1 ELSE nextPk
       /\ users' = usrs
       /\ raised' = None
       /\ events' = Append(pre, SaveEvent(SavePk(i)))

\* the instance as save() leaves it in memory
Saved(i) ==
  IF prepare_smart_fields(i) = None /\ i.kind = "resource"
  THEN [i EXCEPT !.pk = SavePk(i)]
  ELSE i

\* Model.save() of the instance i kept in handle h
SaveInstance(h, i, pre, usrs) ==
  /\ SaveWrite(i, pre, usrs)
  /\ inst' = [inst EXCEPT ![h] = Saved(i)]

\* mutant: delete() marks the instance deleted and keeps its owner
MarkDeleted_KeepOwner(i, now) ==
  [i EXCEPT !.deleted_at = now]

\* SmartModel.delete(), the part after the guard: the fields it mutates
MarkDeleted(i, now) ==
  [i EXCEPT !.deleted_at = now, !.owner = get_sentinel_user]

\* mutant: delete() without its guard
DeleteGuard_Absent(i) == TRUE

\* SmartModel.delete(): TRUE when the deleted_by guard lets the call through
DeleteGuard(i) == get_setting("DEFAULT_REQUIRED") => i.deleted_by # None

\* ------------------------------------------------------------ Init
\* settings.py: get_setting's builtin values
DefaultSettings ==
  [DEFAULT_REQUIRED |-> TRUE, HIDE_DELETED |-> TRUE, HIDE_SERVICE_OWNERS |-> FALSE,
   SENTINEL_UID |-> SENTINEL_UID, SERVICE_UIDS |-> {}]

SettingsSpace ==
  [DEFAULT_REQUIRED : BOOLEAN, HIDE_DELETED : BOOLEAN, HIDE_SERVICE_OWNERS : {FALSE},
   SENTINEL_UID : {SENTINEL_UID}, SERVICE_UIDS : {{}}]

Init ==
  /\ settings \in SettingsSpace
  /\ users = RequestUsers
  /\ rows = [pk \in {} |-> RowOf(BlankInstance)]
  /\ nextPk = 1
  /\ inst = [h \in Handles |-> NoInstance]
  /\ nsRows = {"ns1", "ns2"}
  /\ through = {}
  /\ raised = None
  /\ events = <<>>
  /\ SerializersIdle

\* ------------------------------------------------------------ actions
\* timezone.now(): the wall clock is an input of the operation that reads it.
\* The code stores the time in deleted_at and only ever tests deleted_at for
\* null, so one timestamp stands for every time of day.
Clock == {"t1"}

\* Model(): a new instance, no field set
New(h) ==
  /\ inst' = [inst EXCEPT ![h] = BlankInstance]
  /\ raised' = None
  /\ events' = <<>>
  /\ UNCHANGED <<serializervars, settings, users, rows, nextPk, nsRows, through>>

\* Model.objects.get(pk=pk) or Model._objects.get(pk=pk)
Load(h, pk, unfiltered) ==
  /\ pk \in (IF unfiltered THEN UnfilteredObjects ELSE Objects)
  /\ inst' = [inst EXCEPT ![h] = InstanceOf(pk)]
  /\ raised' = None
  /\ events' = <<>>
  /\ UNCHANGED <<serializervars, settings, users, rows, nextPk, nsRows, through>>

\* instance.save()
Save(h) ==
  /\ inst[h] # NoInstance
  /\ SaveInstance(h, inst[h], <<>>, users)
  /\ UNCHANGED <<serializervars, settings, nsRows, through>>

\* SmartModel.delete() of the instance i kept in handle h
DeleteInstance(h, i, now) ==
  IF ~DeleteGuard(i)
  THEN /\ inst' = [inst EXCEPT ![h] = i]
       /\ raised' = MissingDeletedBy
       /\ events' = <<>>
       /\ UNCHANGED <<users, rows, nextPk>>
  ELSE SaveInstance(h, MarkDeleted(i, now), <<PostDeleteEvent(MarkDeleted(i, now))>>,
                    UsersWithSentinel)

\* instance.delete()
Delete(h, now) ==
  /\ inst[h] # NoInstance
  /\ DeleteInstance(h, inst[h], now)
  /\ UNCHANGED <<serializervars, settings, nsRows, through>>

\* mutant: IsOwner looks at the creator only
IsOwner_has_object_permission_CreatorOnly(user, obj) ==
  IF is_authenticated(user)
  THEN user = obj.created_by
  ELSE FALSE

\* permissions.py
IsOwner_has_object_permission(user, obj) ==
  IF is_authenticated(user)
  THEN (user = obj.created_by) \/ (user = obj.owner)
  ELSE FALSE

IsAdminOrIsOwner_has_object_permission(user, obj) ==
  is_staff(user) \/ IsOwner_has_object_permission(user, obj)

\* SmartQuerySet.create(owner, **kwargs)
QuerySetCreate(owner) ==
  /\ SaveWrite(_set_smart_fields(BlankInstance, ActionCREATE, owner), <<>>, users)
  /\ UNCHANGED <<serializervars, settings, inst, nsRows, through>>

\* SmartViewSetMixin.perform_create: serializer.save(**make_smart_fields(CREATE))
perform_create(user) ==
  /\ SaveWrite(_set_smart_fields(BlankInstance, ActionCREATE, user), <<>>, users)
  /\ UNCHANGED <<serializervars, settings, inst, nsRows, through>>

\* SmartViewSetMixin.perform_update on the object get_object() returned
perform_update(h, user) ==
  /\ inst[h] # NoInstance
  /\ inst[h].pk # 0
  /\ IsAdminOrIsOwner_has_object_permission(user, inst[h])
  /\ SaveInstance(h, _set_smart_fields(inst[h], ActionUPDATE, user), <<>>, users)
  /\ UNCHANGED <<serializervars, settings, nsRows, through>>

\* SmartViewSetMixin.perform_destroy on the object get_object() returned
perform_destroy(h, user, now) ==
  /\ inst[h] # NoInstance
  /\ inst[h].pk # 0
  /\ IsAdminOrIsOwner_has_object_permission(user, inst[h])
  /\ DeleteInstance(h, _set_smart_fields(inst[h], ActionDELETE, user), now)
  /\ UNCHANGED <<serializervars, settings, nsRows, through>>

\* SmartQuerySet.delete(deleted_by) on the rows S of Model.objects.filter(...)
QuerySetDelete(S, deleted_by, now) ==
  /\ S \subseteq Objects
  /\ IF get_setting("DEFAULT_REQUIRED") /\ deleted_by = None
     THEN /\ raised' = ManagerMissingDeletedBy
          /\ UNCHANGED <<users, rows>>
     ELSE /\ raised' = None
          /\ users' = UsersWithSentinel
          /\ rows' = [pk \in DOMAIN rows |->
                       IF pk \in S
                       THEN [rows[pk] EXCEPT !.deleted_at = now,
                                             !.deleted_by = deleted_by,
                                             !.owner = get_sentinel_user]
                       ELSE rows[pk]]
  /\ events' = <<>>
  /\ UNCHANGED <<serializervars, settings, nextPk, inst, nsRows, through>>

\* SmartQuerySet._delete(): the original QuerySet.delete()
QuerySet_delete(S) ==
  /\ S # {}
  /\ S \subseteq Objects
  /\ rows' = [pk \in DOMAIN rows \ S |-> rows[pk]]
  /\ through' = {p \in through : p[1] \notin S}
  /\ raised' = None
  /\ events' = <<>>
  /\ UNCHANGED <<serializervars, settings, users, nextPk, inst, nsRows>>

\* the rows of a queryset in the order of their pk
RECURSIVE Ordered(_)
Ordered(S) ==
  IF S = {} THEN <<>>
  ELSE LET least == CHOOSE x \in S : \A y \in S : x <= y
       IN  <<least>> \o Ordered(S \ {least})

\* one pass of the loop of SmartModelAdminMixin._delete
AdminDeleted(pk, deleted_by, now) ==
  MarkDeleted(_set_smart_fields(InstanceOf(pk), ActionDELETE, deleted_by), now)

RECURSIVE AdminDeleteEvents(_, _, _)
AdminDeleteEvents(pks, deleted_by, now) ==
  IF pks = <<>> THEN <<>>
  ELSE <<PostDeleteEvent(AdminDeleted(Head(pks), deleted_by, now)), SaveEvent(Head(pks))>>
       \o AdminDeleteEvents(Tail(pks), deleted_by, now)

\* SmartModelAdminMixin._delete(queryset, deleted_by), from delete_selected and
\* delete_queryset; the queryset comes from the default manager
Admin_delete(S, user, now) ==
  /\ S # {}
  /\ S \subseteq Objects
  /\ users' = UsersWithSentinel
  /\ rows' = [pk \in DOMAIN rows |->
               IF pk \in S THEN RowOf(AdminDeleted(pk, user, now)) ELSE rows[pk]]
  /\ raised' = None
  /\ events' = AdminDeleteEvents(Ordered(S), user, now)
  /\ UNCHANGED <<serializervars, settings, nextPk, inst, nsRows, through>>

\* mutant: delete_model reaches the original Model.delete() and removes the row
Admin_delete_model_Hard(pk, user, now) ==
  /\ pk \in Objects
  /\ rows' = [k \in DOMAIN rows \ {pk} |-> rows[k]]
  /\ through' = {p \in through : p[1] # pk}
  /\ raised' = None
  /\ events' = <<[type |-> "post_delete", pk |-> pk, by |-> None]>>
  /\ UNCHANGED <<serializervars, settings, users, nextPk, inst, nsRows>>

\* SmartModelAdminMixin.delete_model, from the change form of the object pk
Admin_delete_model(pk, user, now) ==
  /\ pk \in Objects
  /\ users' = UsersWithSentinel
  /\ rows' = [rows EXCEPT ![pk] = RowOf(AdminDeleted(pk, user, now))]
  /\ raised' = None
  /\ events' = AdminDeleteEvents(<<pk>>, user, now)
  /\ UNCHANGED <<serializervars, settings, nextPk, inst, nsRows, through>>

\* SmartModelAdminMixin.save_model: pk = 0 is the add form (change is False)
Admin_save_model(pk, user) ==
  /\ pk # 0 => pk \in Objects
  /\ SaveWrite(IF pk = 0
               THEN _set_smart_fields(BlankInstance, ActionCREATE, user)
               ELSE _set_smart_fields(InstanceOf(pk), ActionUPDATE, user),
               <<>>, users)
  /\ UNCHANGED <<serializervars, settings, inst, nsRows, through>>

Next ==
  \/ \E h \in Handles : New(h)
  \/ \E h \in Handles, pk \in 1..MaxPk, unfiltered \in BOOLEAN : Load(h, pk, unfiltered)
  \/ \E h \in Handles : Save(h)
  \/ \E h \in Handles, now \in Clock : Delete(h, now)
  \/ \E owner \in UserOrNone : QuerySetCreate(owner)
  \/ \E user \in RequestUsers : perform_create(user)
  \/ \E h \in Handles, user \in RequestUsers : perform_update(h, user)
  \/ \E h \in Handles, user \in RequestUsers, now \in Clock : perform_destroy(h, user, now)
  \/ \E S \in SUBSET (1..MaxPk), deleted_by \in UserOrNone, now \in Clock :
       QuerySetDelete(S, deleted_by, now)
  \/ \E S \in SUBSET (1..MaxPk) : QuerySet_delete(S)
  \/ \E S \in SUBSET (1..MaxPk), user \in RequestUsers, now \in Clock :
       Admin_delete(S, user, now)
  \/ \E pk \in 1..MaxPk, user \in RequestUsers, now \in Clock :
       Admin_delete_model(pk, user, now)
  \/ \E pk \in 0..MaxPk, user \in RequestUsers : Admin_save_model(pk, user)

Spec == Init /\ [][Next]_vars

\* mutant: get_queryset() without the filter on the owner
OwnResourceViewMixin_get_queryset_AnyOwner(user) == Objects

\* mixins/views.py: OwnResourceViewMixin.get_queryset() for request.user = user,
\* over a view queryset Model.objects.all()
OwnResourceViewMixin_get_queryset(user) ==
  {pk \in Objects : rows[pk].owner = user}

\* ------------------------------------------------------------ direct use
\* The instances a caller can build with Model(**kwargs): a SmartModel row, or a
\* user (the user model is itself a SmartModel), with any of the four user
\* fields set or not.
ServiceUid == "svc"
OtherUid == "carol"
SetOrNot == {None, "alice"}

DirectInstances ==
  [kind : {"resource"}, uid : {None}, is_superuser : {FALSE}, pk : 0..1,
   owner : UserOrNone, created_by : UserOrNone, updated_by : UserOrNone,
   deleted_by : UserOrNone, deleted_at : {None}]
  \cup
  [kind : {"user"}, uid : {SENTINEL_UID, ServiceUid, OtherUid}, is_superuser : BOOLEAN,
   pk : 0..1,
   owner : SetOrNot, created_by : SetOrNot, updated_by : SetOrNot,
   deleted_by : SetOrNot, deleted_at : {None}]

DirectSettingsSpace ==
  [DEFAULT_REQUIRED : BOOLEAN, HIDE_DELETED : {TRUE}, HIDE_SERVICE_OWNERS : {FALSE},
   SENTINEL_UID : {SENTINEL_UID}, SERVICE_UIDS : {{ServiceUid}}]

InitDirect ==
  /\ settings \in DirectSettingsSpace
  /\ users = RequestUsers
  /\ rows = [pk \in {} |-> RowOf(BlankInstance)]
  /\ nextPk = 1
  /\ inst \in [Handles -> DirectInstances]
  /\ nsRows = {"ns1", "ns2"}
  /\ through = {}
  /\ raised = None
  /\ events = <<>>
  /\ SerializersIdle

NextDirect ==
  \/ \E h \in Handles : Save(h)
  \/ \E h \in Handles, now \in Clock : Delete(h, now)
  \/ \E h \in Handles, pk \in 1..MaxPk, unfiltered \in BOOLEAN : Load(h, pk, unfiltered)
  \/ \E h \in Handles, user \in RequestUsers : perform_update(h, user)
  \/ \E h \in Handles, user \in RequestUsers, now \in Clock : perform_destroy(h, user, now)
  \/ \E S \in SUBSET (1..MaxPk), deleted_by \in UserOrNone, now \in Clock :
       QuerySetDelete(S, deleted_by, now)

SpecDirect == InitDirect /\ [][NextDirect]_vars

\* ------------------------------------------------------------ resources
\* models/resource.py: a Resource is a SmartModel with a many-to-many field
\* `namespaces`; its rows are the rows of `rows`, the relation is `through`.
\* The name of the sentinel namespace row: NAMESPACE_PK_FIELD = SENTINEL_UID
SentinelNamespace == get_setting("SENTINEL_UID")

\* AbstractNamespace.users: alice contributes to ns1, bob to no namespace
NamespaceUsers(ns) == IF ns = "ns1" THEN {"alice"} ELSE {}

\* Namespace.objects = NamespaceManager(): every namespace but the sentinel one
NamespaceObjects == nsRows \ {SentinelNamespace}

\* ResourceViewMixin.get_namespaces() for request.user = user
get_namespaces(user) ==
  IF is_anonymous(user) THEN {}
  ELSE {ns \in NamespaceObjects : user \in NamespaceUsers(ns)}

\* the two tables an operation on the relation works on
Db == [t |-> through, ns |-> nsRows]

\* instance.namespaces.all()
NamespacesOf(t, pk) == {p[2] : p \in {q \in t : q[1] = pk}}

\* namespace.<model>s_owned.all()
ResourcesOf(t, ns) == {p[1] : p \in {q \in t : q[2] = ns}}

\* get_default_namespaces(): get_or_create of the sentinel namespace
get_default_namespaces(d) == [d EXCEPT !.ns = @ \cup {SentinelNamespace}]

\* the m2m_changed receiver, on post_add / post_remove / post_clear sent with a
\* Resource as instance: the sentinel namespace is added from its own side
prepare_shared_smart_m2m_fields(d, pk) ==
  LET g == get_default_namespaces(d)
  IN  IF SentinelNamespace \notin NamespacesOf(g.t, pk)
      THEN [g EXCEPT !.t = @ \cup {<<pk, SentinelNamespace>>}]
      ELSE g

\* instance.namespaces.add(*N): no signal when N is empty
Forward_add(d, pk, N) ==
  IF N = {} THEN d
  ELSE prepare_shared_smart_m2m_fields([d EXCEPT !.t = @ \cup {<<pk, ns>> : ns \in N}], pk)

\* instance.namespaces.remove(*N): no signal when N is empty
Forward_remove(d, pk, N) ==
  IF N = {} THEN d
  ELSE prepare_shared_smart_m2m_fields([d EXCEPT !.t = @ \ {<<pk, ns>> : ns \in N}], pk)

\* instance.namespaces.clear()
Forward_clear(d, pk) ==
  prepare_shared_smart_m2m_fields([d EXCEPT !.t = {p \in @ : p[1] # pk}], pk)

\* instance.namespaces.set(N): remove(old - N), then add(N - old)
Forward_set(d, pk, N) ==
  LET old == NamespacesOf(d.t, pk)
  IN  Forward_add(Forward_remove(d, pk, old \ N), pk, N \ old)

\* namespace.<model>s_owned.add / remove / clear / set: the signal carries the
\* Namespace as instance, the receiver does nothing
Reverse_add(d, ns, R) == [d EXCEPT !.t = @ \cup {<<pk, ns>> : pk \in R}]

Reverse_remove(d, ns, R) == [d EXCEPT !.t = @ \ {<<pk, ns>> : pk \in R}]

Reverse_clear(d, ns) == [d EXCEPT !.t = {p \in @ : p[2] # ns}]

Reverse_set(d, ns, R) ==
  LET old == ResourcesOf(d.t, ns)
  IN  Reverse_add(Reverse_remove(d, ns, old \ R), ns, R \ old)

\* ResourceSerializer: `namespaces` is read-only, what the request data hold
\* for it is never part of validated_data
ResourceSerializer_validated(data) ==
  [f \in DOMAIN data \ {"namespaces"} |-> data[f]]

\* ResourceViewMixin.make_smart_fields: the namespaces it adds to the smart fields
Resource_make_smart_fields(user) == [f \in {"namespaces"} |-> get_namespaces(user)]

\* serializer.save(**kwargs): validated_data, then kwargs over it
SaveData(validated_data, kwargs) ==
  [f \in DOMAIN validated_data \cup DOMAIN kwargs |->
     IF f \in DOMAIN kwargs THEN kwargs[f] ELSE validated_data[f]]

\* a write on the relation
WriteRelation(d) ==
  /\ through' = d.t
  /\ nsRows' = d.ns

\* ResourceViewSet.perform_create for request.user = user and the request data
\* `requested`, which ask for namespaces or do not
Resource_perform_create(user, requested) ==
  LET i == _set_smart_fields(BlankInstance, ActionCREATE, user)
      data == SaveData(ResourceSerializer_validated(requested),
                       Resource_make_smart_fields(user))
  IN  /\ SaveWrite(i, <<>>, users)
      /\ WriteRelation(IF prepare_smart_fields(i) = None
                       THEN Forward_set(Db, nextPk, data["namespaces"])
                       ELSE Db)
      /\ UNCHANGED <<serializervars, settings, inst>>

\* ResourceViewSet.perform_update of the object pk for request.user = user
Resource_perform_update(pk, user) ==
  LET i == _set_smart_fields(InstanceOf(pk), ActionUPDATE, user)
  IN  /\ pk \in Objects
      /\ IsAdminOrIsOwner_has_object_permission(user, InstanceOf(pk))
      /\ SaveWrite(i, <<>>, users)
      /\ WriteRelation(IF prepare_smart_fields(i) = None
                       THEN Forward_set(Db, pk, Resource_make_smart_fields(user)["namespaces"])
                       ELSE Db)
      /\ UNCHANGED <<serializervars, settings, inst>>

\* an operation on the relation alone
RelationOp(d) ==
  /\ WriteRelation(d)
  /\ raised' = None
  /\ events' = <<>>
  /\ UNCHANGED <<serializervars, settings, users, rows, nextPk, inst>>

namespaces_add(pk, N) == RelationOp(Forward_add(Db, pk, N))
namespaces_remove(pk, N) == RelationOp(Forward_remove(Db, pk, N))
namespaces_set(pk, N) == RelationOp(Forward_set(Db, pk, N))
namespaces_clear(pk) == RelationOp(Forward_clear(Db, pk))
resources_owned_add(ns, R) == RelationOp(Reverse_add(Db, ns, R))
resources_owned_remove(ns, R) == RelationOp(Reverse_remove(Db, ns, R))
resources_owned_set(ns, R) == RelationOp(Reverse_set(Db, ns, R))
resources_owned_clear(ns) == RelationOp(Reverse_clear(Db, ns))

\* the data of a request: without the key `namespaces`, or asking for existing
\* namespaces
Requests ==
  {[f \in {} |-> {}]}
    \cup {[f \in {"namespaces"} |-> N] : N \in SUBSET NamespaceObjects \ {{}}}

NextNS ==
  \/ \E user \in RequestUsers, requested \in Requests :
       Resource_perform_create(user, requested)
  \/ \E pk \in 1..MaxPk, user \in RequestUsers : Resource_perform_update(pk, user)
  \/ \E pk \in UnfilteredObjects, N \in SUBSET nsRows : namespaces_add(pk, N)
  \/ \E pk \in UnfilteredObjects, N \in SUBSET nsRows : namespaces_remove(pk, N)
  \/ \E pk \in UnfilteredObjects, N \in SUBSET nsRows : namespaces_set(pk, N)
  \/ \E pk \in UnfilteredObjects : namespaces_clear(pk)
  \/ \E ns \in nsRows, R \in SUBSET UnfilteredObjects : resources_owned_add(ns, R)
  \/ \E ns \in nsRows, R \in SUBSET UnfilteredObjects : resources_owned_remove(ns, R)
  \/ \E ns \in nsRows, R \in SUBSET UnfilteredObjects : resources_owned_set(ns, R)
  \/ \E ns \in nsRows : resources_owned_clear(ns)

SpecNS == Init /\ [][NextNS]_vars

\* ------------------------------------------------------------ user rows
\* The four user fields of a SmartModel are foreign keys declared with
\* on_delete=models.SET(get_sentinel_user).  The table starts with MaxRows rows
\* that alice or bob created.
UserFields == {"owner", "created_by", "updated_by", "deleted_by"}

IntegrityError == "IntegrityError"

UsersRowSpace ==
  [owner : UserOrNone, created_by : RequestUsers, updated_by : {"alice"},
   deleted_by : {None}, deleted_at : {None}]

InitUsers ==
  /\ settings = DefaultSettings
  /\ users = RequestUsers
  /\ rows \in [1..MaxRows -> UsersRowSpace]
  /\ nextPk = MaxRows + 1
  /\ inst = [h \in Handles |-> NoInstance]
  /\ nsRows = {"ns1", "ns2"}
  /\ through = {}
  /\ raised = None
  /\ events = <<>>
  /\ SerializersIdle

\* the row as the deletion of user u leaves it: SET(get_sentinel_user)
SetSentinel(row, u) ==
  [f \in DOMAIN row |->
     IF f \in UserFields /\ row[f] = u THEN get_sentinel_user ELSE row[f]]

\* some row references user u
Referenced(table, u) ==
  \E pk \in DOMAIN table, f \in UserFields : table[pk][f] = u

\* mutant: the foreign keys are declared with on_delete=CASCADE
User_delete_Cascade(u) ==
  /\ u \in users
  /\ rows' = [pk \in {k \in DOMAIN rows : \A f \in UserFields : rows[k][f] # u}
                |-> rows[pk]]
  /\ users' = users \ {u}
  /\ raised' = None
  /\ events' = <<>>
  /\ UNCHANGED <<serializervars, settings, nextPk, inst, nsRows, through>>

\* User._objects.filter(pk=u).delete(): the hard deletion of a user row.  The
\* collector calls get_sentinel_user() for a field some row references u in,
\* updates those fields, then deletes the user row; the database refuses the
\* deletion of a user rows still reference, which is the sentinel user's case.
User_delete(u) ==
  LET updated == [pk \in DOMAIN rows |-> SetSentinel(rows[pk], u)]
      created == IF Referenced(rows, u) THEN UsersWithSentinel ELSE users
  IN  /\ u \in users
      /\ IF Referenced(updated, u)
         THEN /\ raised' = IntegrityError
              /\ UNCHANGED <<users, rows>>
         ELSE /\ raised' = None
              /\ rows' = updated
              /\ users' = created \ {u}
      /\ events' = <<>>
      /\ UNCHANGED <<serializervars, settings, nextPk, inst, nsRows, through>>

NextUsers ==
  \/ \E u \in AllUsers : User_delete(u)
  \/ \E S \in SUBSET (1..MaxRows), deleted_by \in UserOrNone, now \in Clock :
       /\ deleted_by # None => deleted_by \in users
       /\ QuerySetDelete(S, deleted_by, now)

SpecUsers == InitUsers /\ [][NextUsers]_vars

\* ------------------------------------------------------------ a table
\* A table of MaxRows rows alice created, each owned by alice, by a service
\* user, by a user who has been deactivated, by the sentinel user or by nobody,
\* under every value of HIDE_DELETED and HIDE_SERVICE_OWNERS.
TableOwners == {"alice", ServiceUid, InactiveUid, SENTINEL_UID, None}

TableRowSpace ==
  [owner : TableOwners, created_by : {"alice"}, updated_by : {"alice"},
   deleted_by : {None}, deleted_at : {None}]

TableSettingsSpace ==
  [DEFAULT_REQUIRED : {TRUE}, HIDE_DELETED : BOOLEAN, HIDE_SERVICE_OWNERS : BOOLEAN,
   SENTINEL_UID : {SENTINEL_UID}, SERVICE_UIDS : {{ServiceUid}}]

InitTable ==
  /\ settings \in TableSettingsSpace
  /\ users = RequestUsers \cup (TableOwners \ {None})
  /\ rows \in [1..MaxRows -> TableRowSpace]
  /\ nextPk = MaxRows + 1
  /\ inst = [h \in Handles |-> NoInstance]
  /\ nsRows = {"ns1", "ns2"}
  /\ through = {}
  /\ raised = None
  /\ events = <<>>
  /\ SerializersIdle

NextTable ==
  \/ \E h \in Handles, pk \in 1..MaxRows, unfiltered \in BOOLEAN : Load(h, pk, unfiltered)
  \/ \E h \in Handles, now \in Clock : Delete(h, now)
  \/ \E h \in Handles, user \in RequestUsers, now \in Clock : perform_destroy(h, user, now)
  \/ \E S \in SUBSET (1..MaxRows), deleted_by \in UserOrNone, now \in Clock :
       QuerySetDelete(S, deleted_by, now)
  \/ \E S \in SUBSET (1..MaxRows), user \in RequestUsers, now \in Clock :
       Admin_delete(S, user, now)

SpecTable == InitTable /\ [][NextTable]_vars

\* ------------------------------------------------------------ serializers
\* WritableNestingModelSerializerMixin (drf/serializers/mixins.py). A parent
\* serializer class declares the fields "owner", a nested OwnerSerializer, and
\* "created_by", a plain field, a nested serializer, or a nested serializer
\* with many=True (a ListSerializer), and names in Meta.exclude_nested the nested fields that keep
\* the default validation; '__all__' is the set {"__all__"}.
DeclaredFields == <<"owner", "created_by">>

DeclaredNames == {DeclaredFields[k] : k \in 1..Len(DeclaredFields)}

FieldKinds == {"plain", "serializer", "list"}

ExcludeAll == {"__all__"}

\* the declared fields of parent class P that are serializers
NestedOf(P) == {n \in DeclaredNames : P.kind[n] # "plain"}

ParentClasses ==
  {P \in [kind : [DeclaredNames -> FieldKinds],
          cls : [DeclaredNames -> NestedClasses],
          exclude_nested : {ExcludeAll} \cup SUBSET DeclaredNames] :
     /\ P.kind["owner"] = "serializer"
     /\ P.cls["owner"] = "OwnerSerializer"
     /\ P.exclude_nested # ExcludeAll => P.exclude_nested \subseteq NestedOf(P)}

\* SmartModelSerializer: owner and created_by both nest OwnerSerializer, and
\* Meta.exclude_nested = ('owner',)
SmartModelSerializer ==
  [kind |-> [n \in DeclaredNames |-> "serializer"],
   cls |-> [n \in DeclaredNames |-> "OwnerSerializer"],
   exclude_nested |-> {"owner"}]

\* nested_custom: the names of the nested fields that require custom validation
nested_custom(P) ==
  LET excluded == IF P.exclude_nested = ExcludeAll THEN NestedOf(P)
                  ELSE P.exclude_nested
  IN  NestedOf(P) \ excluded

\* v is an instance of one of the classes of the blacklist
for_disabling(v, blacklist) ==
  \E k \in 1..Len(blacklist) : isinstance(v, blacklist[k])

\* mutant: the filter drops UniqueValidator instances only
filter_nested_validators_UniqueOnly(field, blacklist) ==
  SelectSeq(field.validators, LAMBDA v : ~isinstance(v, blacklist[1]))

\* filter_nested_validators(field, blacklist): list(filter(...)) over
\* field.validators
filter_nested_validators(field, blacklist) ==
  SelectSeq(field.validators, LAMBDA v : ~for_disabling(v, blacklist))

\* field.get_fields() of a nested serializer of class c, built under the
\* Meta.extra_kwargs table kw: a 'validators' option replaces the validators a
\* field is declared with
get_fields(kw, c) ==
  [f \in InnerFields |->
     [validators |-> IF f \in DOMAIN kw[c] THEN kw[c][f].validators
                     ELSE declared[c][f]]]

\* disable_validators(field) for a nested serializer of class c: the
\* Meta.extra_kwargs of the class after the call. Meta is an attribute of the
\* class, so the entry is shared by every serializer of class c.
disable_validators(kw, c) ==
  [f \in InnerFields |->
     [validators |-> filter_nested_validators(get_fields(kw, c)[f],
                                              BLACKLISTED_VALIDATORS)]]

\* what the input violates: validators of these classes reject it, and
\* "required" stands for an error on a field of the parent itself
Rejections == {{}, {"UniqueValidator"}, {"MaxLengthValidator"}, {"required"}}

\* super().is_valid(): TRUE when validation under the table kw finds an error
HasErrors(P, rejecting, kw) ==
  \/ "required" \in rejecting
  \/ \E n \in NestedOf(P), f \in InnerFields :
       LET v == get_fields(kw, P.cls[n])[f].validators
       IN  \E k \in 1..Len(v) : v[k] \in rejecting

\* is_valid(): the nested fields whose validators the loop disables
CustomNonList(P) == {n \in nested_custom(P) : P.kind[n] # "list"}

\* mutant: is_valid() hands raise_exception on as it received it
is_valid_raise_exception_Kept(P, raise_exception) == raise_exception

\* is_valid(): the raise_exception handed to super().is_valid() after the loop
is_valid_raise_exception(P, raise_exception) ==
  IF CustomNonList(P) = {} THEN raise_exception ELSE FALSE

\* is_valid(): Meta.extra_kwargs of every nested class after the loop
is_valid_extra_kwargs(P) ==
  [c \in NestedClasses |->
     IF \E n \in CustomNonList(P) : P.cls[n] = c
     THEN disable_validators(extra_kwargs, c)
     ELSE extra_kwargs[c]]

\* WritableNestingModelSerializerMixin.is_valid(raise_exception)
is_valid(P, rejecting, raise_exception) ==
  LET kw == is_valid_extra_kwargs(P)
      errors == HasErrors(P, rejecting, kw)
  IN  /\ extra_kwargs' = kw
      /\ out' = IF errors /\ is_valid_raise_exception(P, raise_exception)
                THEN [call |-> "is_valid", serializer |-> P, rejecting |-> rejecting,
                      raise_exception |-> raise_exception,
                      raised |-> "ValidationError"]
                ELSE [call |-> "is_valid", serializer |-> P, rejecting |-> rejecting,
                      raise_exception |-> raise_exception,
                      raised |-> None, returned |-> ~errors]
      /\ UNCHANGED <<smartvars, declared, initial_data, nested>>

\* disable_validators(field) called on a nested serializer of class c
Call_disable_validators(c) ==
  /\ extra_kwargs' = [extra_kwargs EXCEPT ![c] = disable_validators(extra_kwargs, c)]
  /\ out' = [call |-> "disable_validators", cls |-> c]
  /\ UNCHANGED <<smartvars, declared, initial_data, nested>>

\* the model layer at rest
SmartIdle ==
  /\ settings = DefaultSettings
  /\ users = RequestUsers
  /\ rows = [pk \in {} |-> RowOf(BlankInstance)]
  /\ nextPk = 1
  /\ inst = [h \in Handles |-> NoInstance]
  /\ nsRows = {"ns1", "ns2"}
  /\ through = {}
  /\ raised = None
  /\ events = <<>>

\* no serializer call made yet; the nested classes declare the same
\* validators on each field
InitSerializers ==
  /\ SmartIdle
  /\ SerializersIdle

NextValidators ==
  \/ \E P \in ParentClasses, rejecting \in Rejections, raise_exception \in BOOLEAN :
       is_valid(P, rejecting, raise_exception)
  \/ \E c \in NestedClasses : Call_disable_validators(c)

SpecValidators == InitSerializers /\ [][NextValidators]_vars

\* the filter alone: each nested class declares any validator list on its
\* first field, and disable_validators is applied to the classes
InitFilter ==
  /\ SmartIdle
  /\ declared \in {[c \in NestedClasses |->
                      [f \in InnerFields |->
                         IF f = "username" THEN v[c] ELSE EmailValidators]] :
                   v \in [NestedClasses -> ValidatorLists]}
  /\ extra_kwargs = NoExtraKwargs
  /\ initial_data = EmptyData
  /\ nested = NoNested
  /\ out = NoCall

NextFilter == \E c \in NestedClasses : Call_disable_validators(c)

SpecFilter == InitFilter /\ [][NextFilter]_vars

\* ------------------------------------------------------------ nested serializers
\* The input of a parent serializer is a dict: its flat keys, and under the name
\* of a declared field possibly a nested dict, given by its keys ({} is an
\* empty value, which Python takes for false).
Dict(keys) == [top |-> keys, nested |-> [n \in {} |-> {}]]

DataSpace ==
  {[top |-> {"username"}, nested |-> d] :
     d \in UNION {[N -> {{}, {"username"}}] : N \in SUBSET DeclaredNames}}

\* data.get(name, None) or data
get_or_data(data, name) ==
  IF name \in DOMAIN data.nested /\ data.nested[name] # {}
  THEN Dict(data.nested[name])
  ELSE data

\* mutant: the sibling package smart_models binds the object it was given
\* (data.get(name, None) or data, without copy.deepcopy)
data_for_field_Shared(data, name) ==
  [ref |-> IF name \in DOMAIN data.nested /\ data.nested[name] # {}
           THEN "nested" ELSE "whole",
   data |-> get_or_data(data, name)]

\* get_nested: data_for_field = copy.deepcopy(data.get(name, None) or data);
\* ref tells which object the value is: a copy of its own, the nested dict of
\* the input ("nested") or the input itself ("whole")
data_for_field(data, name) ==
  [ref |-> "copy", data |-> get_or_data(data, name)]

\* get_nested(data) on a serializer of class P bound to data (self.nested)
get_nested(P, data) ==
  /\ initial_data' = data
  /\ nested' = [n \in NestedOf(P) |->
                  [cls |-> IF P.kind[n] = "list" THEN "ListSerializer" ELSE P.cls[n],
                   child |-> IF P.kind[n] = "list" THEN P.cls[n] ELSE "",
                   ref |-> data_for_field(data, n).ref,
                   data |-> data_for_field(data, n).data]]
  /\ out' = [call |-> "get_nested", serializer |-> P]
  /\ UNCHANGED <<smartvars, declared, extra_kwargs>>

\* a key is added to the dict o
Changed(o) == [o EXCEPT !.top = @ \cup {"changed"}]

\* the data nested serializer n is bound to is changed in place: every name
\* of the same object sees the change
Mutate(n) ==
  /\ n \in DOMAIN nested
  /\ "changed" \notin nested[n].data.top
  /\ nested' = [m \in DOMAIN nested |->
                  IF m = n \/ (nested[n].ref = "whole" /\ nested[m].ref = "whole")
                  THEN [nested[m] EXCEPT !.data = Changed(@)]
                  ELSE nested[m]]
  /\ initial_data' =
       CASE nested[n].ref = "whole" -> Changed(initial_data)
         [] nested[n].ref = "nested" ->
              [initial_data EXCEPT !.nested[n] = @ \cup {"changed"}]
         [] OTHER -> initial_data
  /\ out' = [call |-> "mutate", field |-> n]
  /\ UNCHANGED <<smartvars, declared, extra_kwargs>>

NextNested ==
  \/ \E P \in ParentClasses, data \in DataSpace : get_nested(P, data)
  \/ \E n \in DeclaredNames : Mutate(n)

SpecNested == InitSerializers /\ [][NextNested]_vars

\* ------------------------------------------------------------ save_nested
\* What the application supplies: get_nested_instance is left unimplemented
\* (the mixin's own raises NotImplementedError), returns None, or returns an
\* object; create()/update() of the nested serializers return None or an object.
HookBehaviours == {"NotImplemented", "None", "object"}

ChildBehaviours == {"None", "object"}

\* mutant: save_nested takes no nested field for one requiring custom validation
requires_custom_validation_Never(P, name) == FALSE

\* save_nested: requires_custom_validation = (name in list(self.nested_custom))
requires_custom_validation(P, name) == name \in nested_custom(P)

\* save_nested: the body of the loop for the nested field name, on the
\* instances and calls gathered so far; invalid tells that the nested data
\* does not validate. raised = None lets the loop go on.
save_nested_field(P, name, instance, hook, child, invalid, acc) ==
  LET custom == requires_custom_validation(P, name)
      method == IF custom THEN "get_nested_instance"
                ELSE IF instance THEN "update" ELSE "create"
      called == Append(acc.calls, [field |-> name, method |-> method])
  IN  IF ~custom /\ invalid
      THEN [acc EXCEPT !.raised = "ValidationError"]
      ELSE IF custom /\ hook = "NotImplemented"
      THEN [acc EXCEPT !.raised = "NotImplementedError", !.calls = called]
      ELSE IF (IF custom THEN hook ELSE child) = "None"
      THEN [acc EXCEPT !.raised = "AssertionError", !.calls = called]
      ELSE [acc EXCEPT !.calls = called,
                       !.instances = [n \in DOMAIN @ \cup {name} |->
                                        IF n = name THEN method ELSE @[n]]]

\* save_nested: the loop over self.nested.items(), from the k-th declared field
RECURSIVE save_nested_loop(_, _, _, _, _, _, _)
save_nested_loop(P, k, instance, hook, child, invalid, acc) ==
  IF k > Len(DeclaredFields) \/ acc.raised # None THEN acc
  ELSE save_nested_loop(P, k + 1, instance, hook, child, invalid,
         IF DeclaredFields[k] \in NestedOf(P)
         THEN save_nested_field(P, DeclaredFields[k], instance, hook, child, invalid, acc)
         ELSE acc)

\* save_nested() on a bound serializer of class P, with an instance or not.
\* An instance is recorded by the method it came from.
save_nested(P, instance, hook, child, invalid) ==
  LET done == save_nested_loop(P, 1, instance, hook, child, invalid,
                [raised |-> None, calls |-> <<>>, instances |-> [n \in {} |-> ""]])
  IN  /\ out' = [call |-> "save_nested", serializer |-> P, instance |-> instance,
                 hook |-> hook, child |-> child, invalid |-> invalid,
                 raised |-> done.raised, calls |-> done.calls,
                 returned |-> IF done.raised = None THEN done.instances
                              ELSE [n \in {} |-> ""]]
      /\ UNCHANGED <<smartvars, declared, extra_kwargs, initial_data, nested>>

NextSave ==
  \E P \in ParentClasses, instance \in BOOLEAN, hook \in HookBehaviours,
     child \in ChildBehaviours, invalid \in BOOLEAN :
    save_nested(P, instance, hook, child, invalid)

SpecSave == InitSerializers /\ [][NextSave]_vars

\* ------------------------------------------------------------ flat nesting
\* exceptions.py: what the expression NestingErrorException(...) raises or
\* builds, given the number of positional arguments and the keywords of the
\* call: __init__(self, msg=None, *args, **kwargs) takes the first positional
\* argument for msg, so msg given again by keyword is a TypeError
NestingErrorException(positional, keywords) ==
  IF positional >= 1 /\ "msg" \in keywords THEN "TypeError"
  ELSE "NestingErrorException"

\* Python values a property can hand back: None, or a dict given by its keys
PyNone == [type |-> "NoneType"]

PyDict(keys) == [type |-> "dict", keys |-> keys]

\* FlatNestingSerializerMixin.validated_data on a serializer of class P:
\* validated tells that is_valid() has run on the parent, present names the
\* nested fields its validated data holds, child_validated tells that the
\* nested serializers have validated data. The property has no return.
validated_data(P, validated, present, child_validated) ==
  LET missing == NestedOf(P) \ present
      failed == ~validated \/ (missing # {} /\ ~child_validated)
  IN  /\ present \subseteq NestedOf(P)
      /\ out' = [call |-> "validated_data", serializer |-> P, validated |-> validated,
                 present |-> present, child_validated |-> child_validated,
                 raised |-> IF failed THEN NestingErrorException(1, {"msg"}) ELSE None,
                 returned |-> PyNone,
                 validated_data |-> IF failed THEN PyNone
                                    ELSE PyDict({"username"} \cup NestedOf(P))]
      /\ UNCHANGED <<smartvars, declared, extra_kwargs, initial_data, nested>>

NextFlat ==
  \E P \in ParentClasses, validated \in BOOLEAN, present \in SUBSET DeclaredNames,
     child_validated \in BOOLEAN :
    validated_data(P, validated, present, child_validated)

SpecFlat == InitSerializers /\ [][NextFlat]_vars

\* ------------------------------------------------------------ claims
\* a step of one of the soft deletions
InstanceDeleteStep(h) ==
  \/ \E now \in Clock : Delete(h, now)
  \/ \E user \in RequestUsers, now \in Clock : perform_destroy(h, user, now)

RowsDeleteStep ==
  \/ \E S \in SUBSET (1..MaxPk), deleted_by \in UserOrNone, now \in Clock :
       QuerySetDelete(S, deleted_by, now)
  \/ \E S \in SUBSET (1..MaxPk), user \in RequestUsers, now \in Clock :
       Admin_delete(S, user, now)
  \/ \E pk \in 1..MaxPk, user \in RequestUsers, now \in Clock :
       Admin_delete_model(pk, user, now)

SoftDeleteStep == RowsDeleteStep \/ \E h \in Handles : InstanceDeleteStep(h)

\* C1, as stated: no soft deletion (SmartModel.delete(), SmartQuerySet.delete(),
\* the admin deletions, perform_destroy) changes the set of rows of _objects,
\* and a step that removes a row is a step of SmartQuerySet._delete().
C1_SameRows ==
  [][/\ UnfilteredObjects' = UnfilteredObjects \/ ~SoftDeleteStep
     /\ \/ UnfilteredObjects \subseteq UnfilteredObjects'
        \/ \E S \in SUBSET (1..MaxPk) : QuerySet_delete(S)]_vars

\* C1, amended: no soft deletion removes a row, and the set of rows of _objects
\* is the same as before unless SmartModel.delete() runs on an instance that has
\* no row (never saved, or removed since it was loaded), which inserts it; a
\* step that removes a row is a step of SmartQuerySet._delete().
C1_NoRowRemoved ==
  [][/\ UnfilteredObjects \subseteq UnfilteredObjects' \/ ~SoftDeleteStep
     /\ UnfilteredObjects' = UnfilteredObjects \/ ~RowsDeleteStep
     /\ \/ UnfilteredObjects' = UnfilteredObjects
        \/ \A h \in Handles :
             ~(inst[h] # NoInstance /\ inst[h].pk \in UnfilteredObjects
               /\ InstanceDeleteStep(h))
     /\ \/ UnfilteredObjects \subseteq UnfilteredObjects'
        \/ \E S \in SUBSET (1..MaxPk) : QuerySet_delete(S)]_vars

\* a row that SmartModel.delete() has just marked deleted and saved is still there
C1_Witness ==
  \E pk \in UnfilteredObjects :
    /\ rows[pk].deleted_at # None
    /\ Len(events) = 2
    /\ events[1].type = "post_delete" /\ events[1].pk = pk
    /\ events[2] = SaveEvent(pk)

\* C2: every row and every in-memory instance with deleted_at set has the
\* sentinel user as owner, and the sentinel user exists.
C2_DeletedOwnedBySentinel ==
  /\ \A pk \in UnfilteredObjects :
       rows[pk].deleted_at # None
         => rows[pk].owner = get_setting("SENTINEL_UID")
            /\ get_setting("SENTINEL_UID") \in users
  /\ \A h \in Handles :
       inst[h] # NoInstance /\ inst[h].deleted_at # None
         => inst[h].owner = get_setting("SENTINEL_UID")

\* a row created by alice, deleted by bob, now owned by the sentinel
C2_Witness ==
  \E pk \in UnfilteredObjects :
    /\ rows[pk].deleted_at # None
    /\ rows[pk].created_by = "alice"
    /\ rows[pk].deleted_by = "bob"
    /\ rows[pk].owner = SENTINEL_UID

\* C3, as stated: with HIDE_DELETED true a row marked deleted is not returned by
\* objects, is returned by _objects, and stays so in every later state.
C3_HiddenEverAfter ==
  [][settings = DefaultSettings =>
       /\ \A pk \in UnfilteredObjects' :
            rows'[pk].deleted_at # None => pk \notin Objects'
       /\ \A pk \in UnfilteredObjects :
            rows[pk].deleted_at # None => pk \in UnfilteredObjects' /\ pk \notin Objects']_vars

\* C4: with DEFAULT_REQUIRED true, SmartModel.delete() on an instance without
\* deleted_by raises and changes nothing, sends no signal and saves nothing;
\* SmartQuerySet.delete() without deleted_by raises and updates no row.
C4_GuardBeforeMutation ==
  [][get_setting("DEFAULT_REQUIRED") =>
       /\ \A h \in Handles, now \in Clock :
            inst[h] # NoInstance /\ inst[h].deleted_by = None /\ Delete(h, now)
              => /\ raised' = MissingDeletedBy
                 /\ inst' = inst
                 /\ rows' = rows
                 /\ users' = users
                 /\ events' = <<>>
       /\ \A S \in SUBSET (1..MaxPk), now \in Clock :
            QuerySetDelete(S, None, now)
              => /\ raised' = ManagerMissingDeletedBy
                 /\ rows' = rows
                 /\ users' = users
                 /\ events' = <<>>]_vars

\* delete() has just been refused on a loaded instance that is still not deleted
C4_Witness ==
  /\ get_setting("DEFAULT_REQUIRED")
  /\ raised = MissingDeletedBy
  /\ events = <<>>
  /\ \E h \in Handles :
       /\ inst[h] # NoInstance
       /\ inst[h].pk \in UnfilteredObjects
       /\ inst[h].deleted_by = None
       /\ inst[h].deleted_at = None
       /\ rows[inst[h].pk].deleted_at = None
       /\ rows[inst[h].pk].owner = "alice"

\* C5: with DEFAULT_REQUIRED true, save() of an instance that is not the
\* sentinel user, a superuser or a service user is rejected, and writes nothing,
\* exactly when it has no owner, or is new and lacks created_by or updated_by,
\* or is already saved and has neither updated_by nor deleted_by.
C5_PreSaveRequires ==
  [][get_setting("DEFAULT_REQUIRED") =>
       \A h \in Handles :
         inst[h] # NoInstance /\ Save(h) =>
           LET i == inst[h]
               exempt == /\ i.kind = "user"
                         /\ \/ i.uid = SENTINEL_UID
                            \/ i.uid = ServiceUid
                            \/ i.is_superuser
               satisfied == /\ i.owner # None
                            /\ i.pk = 0 => i.created_by # None /\ i.updated_by # None
                            /\ i.pk # 0 => i.updated_by # None \/ i.deleted_by # None
           IN  ~exempt =>
                 /\ raised' # None <=> ~satisfied
                 /\ raised' # None => rows' = rows /\ users' = users /\ events' = <<>>
                 /\ raised' = None => Len(events') = 1]_vars

\* save() has just rejected a new instance that has an owner and no created_by
C5_Witness ==
  /\ get_setting("DEFAULT_REQUIRED")
  /\ raised = MissingCreatedOrUpdatedBy
  /\ rows = <<>>
  /\ \E h \in Handles :
       /\ inst[h] # NoInstance
       /\ inst[h].kind = "resource"
       /\ inst[h].pk = 0
       /\ inst[h].owner = "alice"
       /\ inst[h].created_by = None

\* C7: a creation through the viewset, the admin add form or
\* SmartQuerySet.create (a step that takes a new pk) sets owner, created_by and
\* updated_by to the acting user and nothing else; an update through the viewset
\* or the admin that saves sets updated_by only; a deletion through the viewset
\* or the admin (a step that sends post_delete and saves) sets deleted_by to the
\* acting user and then soft-deletes, post_delete carrying that deleted_by.
C7_AuditFieldsByAction ==
  [][/\ \/ nextPk' = nextPk
        \/ \A user \in RequestUsers :
             perform_create(user) \/ Admin_save_model(0, user) \/ QuerySetCreate(user)
               => rows' = Put(rows, nextPk,
                              [owner |-> user, created_by |-> user, updated_by |-> user,
                               deleted_by |-> None, deleted_at |-> None])
     /\ \A h \in Handles :
          \/ inst[h] = NoInstance
          \/ events' # <<SaveEvent(inst[h].pk)>>
          \/ \A user \in RequestUsers :
               perform_update(h, user)
                 => /\ inst'[h] = [inst[h] EXCEPT !.updated_by = user]
                    /\ rows' = Put(rows, inst[h].pk, RowOf(inst'[h]))
     /\ \A pk \in 1..MaxPk :
          \/ events' # <<SaveEvent(pk)>>
          \/ \A user \in RequestUsers :
               Admin_save_model(pk, user)
                 => rows' = [rows EXCEPT ![pk].updated_by = user]
     /\ \/ Len(events') # 2
        \/ /\ \A h \in Handles, user \in RequestUsers, now \in Clock :
                inst[h] # NoInstance /\ perform_destroy(h, user, now)
                  => /\ inst'[h] = [inst[h] EXCEPT !.deleted_by = user,
                                                   !.deleted_at = now,
                                                   !.owner = SENTINEL_UID]
                     /\ rows' = Put(rows, inst[h].pk, RowOf(inst'[h]))
                     /\ events' = <<[type |-> "post_delete", pk |-> inst[h].pk,
                                     by |-> user],
                                    SaveEvent(inst[h].pk)>>
           /\ \A pk \in 1..MaxPk, user \in RequestUsers, now \in Clock :
                Admin_delete_model(pk, user, now) \/ Admin_delete({pk}, user, now)
                  => /\ rows' = [rows EXCEPT ![pk].deleted_by = user,
                                             ![pk].deleted_at = now,
                                             ![pk].owner = SENTINEL_UID]
                     /\ events' = <<[type |-> "post_delete", pk |-> pk, by |-> user],
                                    SaveEvent(pk)>>]_vars

\* a row alice created and updated has just been destroyed by bob through the
\* viewset
C7_Witness ==
  \E h \in Handles :
    /\ inst[h] # NoInstance
    /\ inst[h].pk \in UnfilteredObjects
    /\ rows[inst[h].pk] = [owner |-> SENTINEL_UID, created_by |-> "alice",
                           updated_by |-> "alice", deleted_by |-> "bob",
                           deleted_at |-> "t1"]
    /\ RowOf(inst[h]) = rows[inst[h].pk]
    /\ events = <<[type |-> "post_delete", pk |-> inst[h].pk, by |-> "bob"],
                  SaveEvent(inst[h].pk)>>

C10_OwnAndNotDeleted ==
  \A user \in users :
    \A pk \in OwnResourceViewMixin_get_queryset(user) :
      /\ pk \in UnfilteredObjects
      /\ rows[pk].owner = user
      /\ rows[pk].deleted_at = None

\* HIDE_DELETED is off and the row alice created is soft-deleted: neither alice
\* nor the sentinel user, its owner now, gets it
C10_Witness ==
  /\ ~get_setting("HIDE_DELETED")
  /\ \E pk \in UnfilteredObjects :
       /\ rows[pk].created_by = "alice"
       /\ rows[pk].deleted_at # None
       /\ rows[pk].owner \in users
       /\ pk \notin OwnResourceViewMixin_get_queryset("alice")
       /\ pk \notin OwnResourceViewMixin_get_queryset(rows[pk].owner)

\* C6: every Resource row has the sentinel namespace among its namespaces, in
\* every state after its creation (also by a user who belongs to no namespace)
\* and after any add, remove, set and clear made from either side.
C6_SentinelNamespaceAlways ==
  \A pk \in UnfilteredObjects : SentinelNamespace \in NamespacesOf(through, pk)

\* C8: a resource created through ResourceViewMixin gets the namespaces whose
\* users contain the request user when the request asks for none, and the
\* namespaces the request asks for when it asks for existing ones (the sentinel
\* namespace left aside).
C8_RequestedNamespacesAssigned ==
  [][\A user \in RequestUsers, requested \in Requests :
       Resource_perform_create(user, requested) /\ raised' = None
         => NamespacesOf(through', nextPk) \ {SentinelNamespace}
              = IF "namespaces" \in DOMAIN requested
                THEN requested["namespaces"]
                ELSE {ns \in nsRows \ {SentinelNamespace} : user \in NamespaceUsers(ns)}]_vars

\* C11: the hard deletion of a user row removes no SmartModel row; in every row
\* each of owner, created_by, updated_by, deleted_by that referenced the user
\* references the sentinel user, which exists, and every other field is as
\* before; a refused deletion changes no row.
C11_UserDeleteKeepsRows ==
  [][\A u \in AllUsers :
       User_delete(u) =>
         /\ DOMAIN rows' = DOMAIN rows
         /\ \A pk \in DOMAIN rows :
              /\ \A f \in UserFields :
                   rows'[pk][f] = IF rows[pk][f] = u /\ raised' = None
                                  THEN SENTINEL_UID ELSE rows[pk][f]
              /\ rows'[pk].deleted_at = rows[pk].deleted_at
         /\ raised' = None =>
              /\ u \notin users'
              /\ Referenced(rows, u) => SENTINEL_UID \in users']_vars

\* alice's row has been deleted; a row she owned and updated is still there, not
\* deleted, the sentinel user in her place
C11_Witness ==
  /\ "alice" \notin users
  /\ SENTINEL_UID \in users
  /\ \E pk \in UnfilteredObjects :
       /\ rows[pk].owner = SENTINEL_UID
       /\ rows[pk].updated_by = SENTINEL_UID
       /\ rows[pk].created_by = "bob"
       /\ rows[pk].deleted_at = None

\* C12: whatever HIDE_DELETED and HIDE_SERVICE_OWNERS are, `objects` returns no
\* row owned by the sentinel user and no row owned by a user whose is_active is
\* false; with HIDE_SERVICE_OWNERS true it returns no row whose owner's uid is
\* in SERVICE_UIDS.
C12_ObjectsHidesOwners ==
  \A pk \in Objects :
    /\ pk \in UnfilteredObjects
    /\ rows[pk].owner # SENTINEL_UID
    /\ rows[pk].owner # InactiveUid
    /\ settings.HIDE_SERVICE_OWNERS => rows[pk].owner # ServiceUid

\* HIDE_DELETED and HIDE_SERVICE_OWNERS are false: of the two rows, not deleted,
\* the one of the deactivated owner is hidden, the one of the service user is
\* returned and has been loaded through `objects`
C12_Witness ==
  /\ ~settings.HIDE_DELETED
  /\ ~settings.HIDE_SERVICE_OWNERS
  /\ \E hidden \in UnfilteredObjects, shown \in Objects, h \in Handles :
       /\ rows[hidden].owner = InactiveUid
       /\ rows[hidden].deleted_at = None
       /\ hidden \notin Objects
       /\ rows[shown].owner = ServiceUid
       /\ inst[h] = InstanceOf(shown)

\* the post_delete signals among the events of an operation
PostDeletes(evts) == {k \in 1..Len(evts) : evts[k].type = "post_delete"}

\* C18: a SmartModel.delete() that goes through sends post_delete once, with the
\* instance's deleted_by, and then saves; the admin deletion of a queryset sends
\* one post_delete per object, each before the save of that object; and
\* SmartQuerySet.delete() sends no post_delete.
C18_PostDeletePerInstance ==
  [][/\ \/ events' = <<>>
        \/ /\ \A h \in Handles, now \in Clock :
                inst[h] # NoInstance /\ Delete(h, now)
                  => events' = <<[type |-> "post_delete", pk |-> inst[h].pk,
                                  by |-> inst[h].deleted_by],
                                 [type |-> "save", pk |-> inst[h].pk, by |-> None]>>
           /\ \A S \in SUBSET (1..MaxRows), user \in RequestUsers, now \in Clock :
                Admin_delete(S, user, now)
                  => /\ Cardinality(PostDeletes(events')) = Cardinality(S)
                     /\ \A pk \in S :
                          \E k \in PostDeletes(events') :
                            /\ events'[k].pk = pk
                            /\ events'[k].by = user
                            /\ \A j \in PostDeletes(events') :
                                 events'[j].pk = pk => j = k
                            /\ \E j \in (k + 1)..Len(events') :
                                 events'[j].type = "save" /\ events'[j].pk = pk
     /\ \/ PostDeletes(events') = {}
        \/ ~\E S \in SUBSET (1..MaxRows), deleted_by \in UserOrNone, now \in Clock :
              QuerySetDelete(S, deleted_by, now)]_vars

\* the admin has just deleted a queryset of two objects as bob: two post_delete
\* signals, each followed by the save of its object
C18_Witness ==
  /\ Len(events) = 4
  /\ PostDeletes(events) = {1, 3}
  /\ events[1].pk # events[3].pk
  /\ events[1].by = "bob" /\ events[3].by = "bob"
  /\ events[2] = SaveEvent(events[1].pk)
  /\ events[4] = SaveEvent(events[3].pk)
  /\ \A k \in {1, 3} : rows[events[k].pk].deleted_by = "bob"

\* C19: with HIDE_DELETED false and HIDE_SERVICE_OWNERS false, a row that
\* SmartModel.delete() or SmartQuerySet.delete() has just marked deleted is
\* still returned by `objects`.
C19_DeletedStillReturned ==
  [][~settings.HIDE_DELETED /\ ~settings.HIDE_SERVICE_OWNERS =>
       \A pk \in UnfilteredObjects :
         /\ rows[pk].deleted_at = None
         /\ pk \in UnfilteredObjects'
         /\ rows'[pk].deleted_at # None
         /\ \/ \E h \in Handles, now \in Clock : Delete(h, now)
            \/ \E S \in SUBSET (1..MaxPk), deleted_by \in UserOrNone, now \in Clock :
                 QuerySetDelete(S, deleted_by, now)
         => pk \in Objects']_vars

\* result is original without its UniqueValidator and UniqueTogetherValidator
\* instances, the others in their original order
KeptInOrder(result, original) ==
  LET kept == {k \in 1..Len(original) :
                 original[k] \notin {"UniqueValidator", "UniqueTogetherValidator"}}
  IN  /\ Len(result) = Cardinality(kept)
      /\ \A k \in kept : result[Cardinality({j \in kept : j <= k})] = original[k]

\* C13: filter_nested_validators returns exactly the validators of the field
\* that are instances of neither UniqueValidator nor UniqueTogetherValidator, in
\* their original order, and disable_validators installs that list as the
\* 'validators' option of every field of the nested serializer.
C13_FilteredValidatorsInstalled ==
  [][\A c \in NestedClasses :
       /\ \A f \in InnerFields :
            KeptInOrder(filter_nested_validators(get_fields(extra_kwargs, c)[f],
                                                 BLACKLISTED_VALIDATORS),
                        get_fields(extra_kwargs, c)[f].validators)
       /\ Call_disable_validators(c)
            => /\ DOMAIN extra_kwargs'[c] = InnerFields
               /\ \A f \in InnerFields :
                    KeptInOrder(extra_kwargs'[c][f].validators,
                                get_fields(extra_kwargs, c)[f].validators)]_vars

\* disable_validators has run on a class whose fields were declared with
\* validators of both kinds: the survivors are installed, in order
C13_Witness ==
  /\ out = [call |-> "disable_validators", cls |-> "OwnerSerializer"]
  /\ declared["OwnerSerializer"]["username"] = <<"UniqueTogetherValidator", "MaxLengthValidator">>
  /\ extra_kwargs["OwnerSerializer"]["username"].validators = <<"MaxLengthValidator">>
  /\ extra_kwargs["OwnerSerializer"]["email"].validators
       = <<"RegexValidator", "MaxLengthValidator">>

\* C14: after is_valid() a nested field named in Meta.exclude_nested still has
\* the validators it had, uniqueness validators included, also when it uses the
\* serializer class of a nested field that is not excluded.
C14_ExcludedKeepsValidators ==
  [][out'.call = "is_valid"
       => LET P == out'.serializer
          IN  is_valid(P, out'.rejecting, out'.raise_exception)
                => \A n \in NestedOf(P) :
                     (P.exclude_nested = ExcludeAll \/ n \in P.exclude_nested)
                       => \A f \in InnerFields :
                            get_fields(extra_kwargs', P.cls[n])[f].validators
                              = get_fields(extra_kwargs, P.cls[n])[f].validators]_vars

\* C17: is_valid(raise_exception=True) raises on invalid data exactly when no
\* nested serializer that is not a list requires custom validation (always so
\* under exclude_nested = '__all__', which leaves the validators alone);
\* otherwise it returns False on invalid data.
C17_RaiseOnlyWithoutCustom ==
  [][out'.call = "is_valid"
       => LET P == out'.serializer
              invalid == HasErrors(P, out'.rejecting, extra_kwargs')
              custom == \E n \in DeclaredNames :
                          /\ P.kind[n] = "serializer"
                          /\ P.exclude_nested # ExcludeAll
                          /\ n \notin P.exclude_nested
          IN  is_valid(P, out'.rejecting, TRUE)
                => /\ out'.raised = "ValidationError" <=> (invalid /\ ~custom)
                   /\ out'.raised = None => out'.returned = ~invalid
                   /\ P.exclude_nested = ExcludeAll => extra_kwargs' = extra_kwargs]_vars

\* is_valid(raise_exception=True) has returned False on input that only a
\* MaxLengthValidator rejects: the exception was suppressed for created_by,
\* whose class had its validators filtered
C17_Witness ==
  /\ out = [call |-> "is_valid", serializer |-> SmartModelSerializer,
            rejecting |-> {"MaxLengthValidator"}, raise_exception |-> TRUE,
            raised |-> None, returned |-> FALSE]
  /\ DOMAIN extra_kwargs["OwnerSerializer"] = InnerFields

\* C15: get_nested returns, for every declared field that is a serializer, one
\* serializer of the same class bound to data[name] when the input has a
\* non-empty value under that name and to the whole input otherwise; the other
\* fields get no entry; the bound data is a copy, so changing it never changes
\* the initial_data of the parent.
C15_NestedBoundToCopies ==
  [][/\ out'.call = "get_nested"
          => LET P == out'.serializer
             IN  get_nested(P, initial_data')
                   => /\ DOMAIN nested' = {n \in DeclaredNames : P.kind[n] # "plain"}
                      /\ \A n \in DOMAIN nested' :
                           /\ P.kind[n] = "serializer" => nested'[n].cls = P.cls[n]
                           /\ P.kind[n] = "list" => /\ nested'[n].cls = "ListSerializer"
                                                    /\ nested'[n].child = P.cls[n]
                           /\ IF /\ n \in DOMAIN initial_data'.nested
                                 /\ initial_data'.nested[n] # {}
                              THEN nested'[n].data = Dict(initial_data'.nested[n])
                              ELSE nested'[n].data = initial_data'
     /\ out'.call = "mutate" => initial_data' = initial_data]_vars

\* owner was bound to the nested value and created_by, given as an empty value,
\* to the whole input; both were changed, and the parent's input was not
C15_Witness ==
  /\ initial_data = [top |-> {"username"},
                     nested |-> [n \in DeclaredNames |->
                                   IF n = "owner" THEN {"username"} ELSE {}]]
  /\ DOMAIN nested = DeclaredNames
  /\ nested["owner"].data = [top |-> {"username", "changed"}, nested |-> <<>>]
  /\ nested["created_by"].data = Changed(initial_data)

\* C16: save_nested returns exactly one non-null instance per nested serializer
\* field: from get_nested_instance for a field that requires custom validation,
\* whose create()/update() is never called, and for an excluded field from
\* update() when the parent has an instance, from create() otherwise. With
\* get_nested_instance not implemented the call fails with NotImplementedError,
\* and with a hook returning None it fails with an assertion error.
C16_OneInstancePerNested ==
  [][out'.call = "save_nested"
       => LET o == out'
              P == o.serializer
              fields == {n \in DeclaredNames : P.kind[n] # "plain"}
              custom == {n \in fields : /\ P.exclude_nested # ExcludeAll
                                        /\ n \notin P.exclude_nested}
              excluded == fields \ custom
              excludedFine == excluded = {} \/ (~o.invalid /\ o.child = "object")
          IN  save_nested(P, o.instance, o.hook, o.child, o.invalid)
                => /\ o.raised = None
                        => /\ DOMAIN o.returned = fields
                           /\ \A n \in custom : o.returned[n] = "get_nested_instance"
                           /\ \A n \in excluded :
                                o.returned[n] = IF o.instance THEN "update" ELSE "create"
                           /\ Len(o.calls) = Cardinality(fields)
                   /\ \A k \in 1..Len(o.calls) :
                        o.calls[k].field \in custom
                          => o.calls[k].method = "get_nested_instance"
                   /\ (custom # {} /\ o.hook = "NotImplemented" /\ excludedFine)
                        => o.raised = "NotImplementedError"
                   /\ (custom # {} /\ o.hook = "None" /\ excludedFine)
                        => o.raised = "AssertionError"
                   /\ (excluded # {} /\ o.child = "None" /\ ~o.invalid
                         /\ (custom = {} \/ o.hook = "object"))
                        => o.raised = "AssertionError"
                   /\ (excludedFine /\ (custom = {} \/ o.hook = "object"))
                        => o.raised = None]_vars

\* save_nested on a serializer with an instance has updated the excluded owner
\* and taken created_by from get_nested_instance
C16_Witness ==
  /\ out.call = "save_nested"
  /\ out.serializer = SmartModelSerializer
  /\ out.raised = None
  /\ out.returned = [n \in DeclaredNames |->
                       IF n = "owner" THEN "update" ELSE "get_nested_instance"]
  /\ out.calls = <<[field |-> "owner", method |-> "update"],
                   [field |-> "created_by", method |-> "get_nested_instance"]>>

\* C20: FlatNestingSerializerMixin.validated_data returns the validated data
\* with every nested field absent from it filled in from the child, and a
\* failure to read the data surfaces as a NestingErrorException.
C20_FlatValidatedData ==
  [][out'.call = "validated_data"
       => LET o == out'
              P == o.serializer
              readable == /\ o.validated
                          /\ (NestedOf(P) \subseteq o.present \/ o.child_validated)
          IN  validated_data(P, o.validated, o.present, o.child_validated)
                => IF readable
                   THEN /\ o.raised = None
                        /\ o.returned = PyDict({"username"} \cup NestedOf(P))
                   ELSE o.raised = "NestingErrorException"]_vars

\* C21: soft deletion is one-way: a row whose deleted_at is set keeps, through
\* every operation that leaves it in the table, a deleted_at that is set and
\* the sentinel user as its owner, also when an instance loaded before the
\* deletion is saved.
C21_DeletionOneWay ==
  [][\A pk \in UnfilteredObjects \cap UnfilteredObjects' :
       rows[pk].deleted_at # None
         => /\ rows'[pk].deleted_at # None
            /\ rows[pk].owner = SENTINEL_UID => rows'[pk].owner = SENTINEL_UID]_vars

====
